---- MODULE Spec2Model ----
\* Model of github.com/donatj/wordwrap (wordwrap.go): the SplitBuilder.Split
\* iterator, its consumers SplitString and WrapString, and join.
\*
\* A string is a sequence of bytes (0..255) holding well-formed UTF-8.
\* The iterator is a coroutine: one action runs the code from one suspension
\* point (the top of the cluster loop, or a yield) to the next one.
EXTENDS Integers, Sequences, FiniteSets, TLC

\* ---------------------------------------------------------------- bounds
MaxLen == 4          \* scalar values in an input string
MaxLimit == 4        \* largest byteLimit tried (0..MaxLimit)

\* ------------------------------------------------------------ the inputs
\* The scalar values inputs are built from, as UTF-8:
\*   'a' U+0061, ' ' U+0020, U+0301 combining acute (2 bytes)
\* so that clusters of 1 byte ("a", " "), 2 bytes (a leading U+0301), 3 bytes
\* ("a" or " " with U+0301) and 5 bytes (with two U+0301) occur.
Alphabet == { <<97>>, <<32>>, <<204, 129>> }

RECURSIVE Flatten(_)
Flatten(ss) == IF ss = <<>> THEN <<>> ELSE Head(ss) \o Flatten(Tail(ss))

Inputs == { Flatten(rs) : rs \in UNION { [1..n -> Alphabet] : n \in 0..MaxLen } }

\* The family emoji of the tests: U+1F469 ZWJ U+1F469 ZWJ U+1F467 ZWJ U+1F467,
\* one grapheme cluster of 25 bytes.
FamilyEmoji ==
    <<240, 159, 145, 169>> \o <<226, 128, 141>> \o <<240, 159, 145, 169>>
      \o <<226, 128, 141>> \o <<240, 159, 145, 167>> \o <<226, 128, 141>>
      \o <<240, 159, 145, 167>>

\* "abcdefgh" + family emoji + "ijklmn", split at 30 bytes.
ScenarioInput ==
    <<97, 98, 99, 100, 101, 102, 103, 104>> \o FamilyEmoji
      \o <<105, 106, 107, 108, 109, 110>>
ScenarioLimit == 30

Nil == "nil"
ErrGraphemeClusterTooLarge == "grapheme cluster exceeds byte limit"

\* ------------------------------------------------------- unicode/utf8
\* Width of the encoding that starts with lead byte b.
RuneLen(b) == IF b < 128 THEN 1 ELSE IF b < 224 THEN 2 ELSE IF b < 240 THEN 3 ELSE 4

\* utf8.DecodeRuneInString: the first scalar value of a non-empty string.
DecodeRuneInString(str) ==
    LET b == str[1] IN
    CASE RuneLen(b) = 1 -> b
      [] RuneLen(b) = 2 -> (b - 192) * 64 + (str[2] - 128)
      [] RuneLen(b) = 3 -> (b - 224) * 4096 + (str[2] - 128) * 64 + (str[3] - 128)
      [] OTHER -> (b - 240) * 262144 + (str[2] - 128) * 4096
                    + (str[3] - 128) * 64 + (str[4] - 128)

\* `for _, r := range cluster`: the scalar values of a string, in order.
RECURSIVE RangeRunes(_)
RangeRunes(str) ==
    IF str = <<>> THEN <<>>
    ELSE <<DecodeRuneInString(str)>>
           \o RangeRunes(SubSeq(str, RuneLen(str[1]) + 1, Len(str)))

\* []byte(string(r)): the UTF-8 encoding of scalar value r.
RuneBytes(r) ==
    IF r < 128 THEN <<r>>
    ELSE IF r < 2048 THEN <<192 + (r \div 64), 128 + (r % 64)>>
    ELSE IF r < 65536 THEN <<224 + (r \div 4096), 128 + ((r \div 64) % 64), 128 + (r % 64)>>
    ELSE <<240 + (r \div 262144), 128 + ((r \div 4096) % 64),
           128 + ((r \div 64) % 64), 128 + (r % 64)>>

\* unicode.IsSpace
IsSpace(r) ==
    \/ r \in 9..13
    \/ r \in {32, 133, 160, 5760, 8232, 8233, 8239, 8287, 12288}
    \/ r \in 8192..8202

\* strings.TrimRight(line, " \t\n\r")
RECURSIVE TrimRight(_)
TrimRight(line) ==
    IF line # <<>> /\ line[Len(line)] \in {32, 9, 10, 13}
    THEN TrimRight(SubSeq(line, 1, Len(line) - 1))
    ELSE line

\* ------------------------------------------------------------- uniseg
\* Grapheme_Cluster_Break classes of UAX #29 for the scalar values used.
IsControl(r) == r < 32 \/ r \in 127..159
IsExtend(r) == r \in 768..879
IsZWJ(r) == r = 8205
IsExtPict(r) == r \in 127744..129791

\* Variant: a zero width joiner does not extend the cluster before it.
NoBreak_NoZWJ(prev, cur) ==
    \/ prev = 13 /\ cur = 10
    \/ IsExtend(cur) /\ ~IsControl(prev)

\* No cluster boundary between prev and cur: GB3 (CR x LF), GB9 (x Extend,
\* x ZWJ) unless GB4 (break after Control, CR, LF) applies.
NoBreak(prev, cur) ==
    \/ prev = 13 /\ cur = 10
    \/ (IsExtend(cur) \/ IsZWJ(cur)) /\ ~IsControl(prev)

\* No cluster boundary between rs[i] and rs[i+1], rs[1..i] being in one
\* cluster: NoBreak, or GB11 (ExtPict Extend* ZWJ x ExtPict).
NoBreakAt(rs, i) ==
    \/ NoBreak(rs[i], rs[i + 1])
    \/ /\ IsZWJ(rs[i]) /\ IsExtPict(rs[i + 1])
       /\ \E j \in 1..(i - 1) :
             IsExtPict(rs[j]) /\ \A k \in (j + 1)..(i - 1) : IsExtend(rs[k])

\* Number of scalar values in the first grapheme cluster of rs.
ClusterRunes(rs) ==
    CHOOSE n \in 1..Len(rs) :
        /\ n = Len(rs) \/ ~NoBreakAt(rs, n)
        /\ \A m \in 1..(n - 1) : NoBreakAt(rs, m)

\* Length in bytes of the first grapheme cluster of the scalar values rs.
FirstClusterLen(rs) ==
    Len(Flatten([i \in 1..ClusterRunes(rs) |-> RuneBytes(rs[i])]))

\* uniseg.NewGraphemes(s) with gr.Next()/gr.Str(): the grapheme clusters of
\* str in order.
RECURSIVE Graphemes(_)
Graphemes(str) ==
    IF str = <<>> THEN <<>>
    ELSE LET n == FirstClusterLen(RangeRunes(str)) IN
         <<SubSeq(str, 1, n)>> \o Graphemes(SubSeq(str, n + 1, Len(str)))

\* ------------------------------------------------------------- state
VARIABLES
    s,            \* the input string
    byteLimit,    \* the byteLimit argument
    sb,           \* the SplitBuilder (its three flags)
    consumer,     \* who ranges over the iterator: "range" or "SplitString"
    gr,           \* the clusters gr.Next() has not delivered yet
    cluster,      \* the cluster of the iteration that is suspended in a yield
    runes,        \* the scalar values left in the bisection loop
    workingLine,
    spacePos,
    lastPos,
    yielded,      \* every call of yield so far: the line and error passed,
                  \* what the call returned (ok), and for reference the
                  \* untrimmed line, the emission site and the working line at
                  \* that moment
    pc,           \* where Split stands
    lines,        \* SplitString's lines
    firstErr,     \* SplitString's firstErr
    ret,          \* what SplitString returned
    wrapRet       \* what WrapString returned

vars == <<s, byteLimit, sb, consumer, gr, cluster, runes, workingLine, spacePos,
          lastPos, yielded, pc, lines, firstErr, ret, wrapRet>>

charPos(p, sz) == [pos |-> p, size |-> sz]
ZeroPos == charPos(0, 0)

SplitBuilder == [continueOnError : BOOLEAN, breakGraphemeClusters : BOOLEAN,
                 trimTrailingWhiteSpace : BOOLEAN]

DefaultSplitBuilder == [continueOnError |-> FALSE, breakGraphemeClusters |-> FALSE,
                        trimTrailingWhiteSpace |-> FALSE]

NoRet == [none |-> TRUE]

Init ==
    /\ \/ s \in Inputs /\ byteLimit \in 0..MaxLimit
       \/ s = ScenarioInput /\ byteLimit = ScenarioLimit
    /\ sb \in SplitBuilder
    /\ consumer \in {"range", "SplitString"}
    /\ gr = Graphemes(s)
    /\ cluster = <<>>
    /\ runes = <<>>
    /\ workingLine = <<>>
    /\ spacePos = ZeroPos
    /\ lastPos = ZeroPos
    /\ yielded = <<>>
    /\ pc = "loop"
    /\ lines = <<>>
    /\ firstErr = Nil
    /\ ret = NoRet
    /\ wrapRet = NoRet

\* strings.Trim(line, " \t\n\r"): TrimRight, and the same at the front.
RECURSIVE TrimBoth(_)
TrimBoth(line) ==
    IF line # <<>> /\ line[1] \in {32, 9, 10, 13}
    THEN TrimBoth(Tail(line))
    ELSE TrimRight(line)

\* Variant: the line is trimmed at both ends.
Trimmed_BothEnds(line) == IF sb.trimTrailingWhiteSpace THEN TrimBoth(line) ELSE line

\* The line handed to yield: trimmed when the builder says so.
Trimmed(line) == IF sb.trimTrailingWhiteSpace THEN TrimRight(line) ELSE line

\* What a call of yield can return. A plain range loop may break after any
\* line; SplitString's loop body returns (so yield returns false) on the first
\* error when continueOnError is off.
YieldReturns(err) ==
    IF consumer = "range" THEN BOOLEAN
    ELSE { ~(err # Nil /\ firstErr = Nil /\ ~sb.continueOnError) }

\* ok = yield(Trimmed(raw), err): the call is recorded and the loop body of
\* the consumer runs.
Yield(raw, err, site, wl, ok) ==
    /\ yielded' = Append(yielded, [line |-> Trimmed(raw), err |-> err, ok |-> ok,
                                   raw |-> raw, site |-> site, wl |-> wl])
    /\ IF consumer = "SplitString"
       THEN /\ lines' = Append(lines, Trimmed(raw))
            /\ firstErr' = IF err # Nil /\ firstErr = Nil THEN err ELSE firstErr
       ELSE UNCHANGED <<lines, firstErr>>

\* Variant: the size test is off by one.
Oversized_OffByOne(c) == Len(c) > byteLimit + 1

\* Variant: a cluster of exactly byteLimit bytes counts as too large.
Oversized_OrEqual(c) == Len(c) >= byteLimit

\* Variant: byteLimit 0 is taken to mean "no limit".
Oversized_NonZero(c) == byteLimit > 0 /\ Len(c) > byteLimit

\* Is cluster c alone too large for a line?
Oversized(c) == Len(c) > byteLimit

\* Variant: the continueOnError test after the error is forgotten.
AfterError_NoStop(ok) == IF ~ok THEN "break" ELSE "loop"

\* Variant: Split returns after the error whatever continueOnError says.
AfterError_AlwaysStop(ok) == IF ~ok THEN "break" ELSE "error"

\* Variant: what yield returned is ignored after an error line.
AfterError_IgnoreStop(ok) == IF ~sb.continueOnError THEN "error" ELSE "loop"

\* Where Split goes after yielding the oversized cluster, ok being what yield
\* returned: it returns when the consumer stopped or continueOnError is off.
AfterError(ok) ==
    IF ~ok THEN "break"
    ELSE IF ~sb.continueOnError THEN "error" ELSE "loop"

\* Variant: the working line is never flushed in front of an oversized cluster.
FlushBeforeError_Never(wl) == FALSE

\* `if workingLine.Len() > 0` of the pre-check: is there a working line to
\* flush in front of the oversized cluster?
FlushBeforeError(wl) == Len(wl) > 0

\* Pre-check, first half: the cluster alone is too large and the working
\* line is not empty, so the working line is flushed first.
PreCheckFlush ==
    /\ pc = "loop" /\ gr # <<>>
    /\ Oversized(Head(gr)) /\ ~sb.breakGraphemeClusters
    /\ FlushBeforeError(workingLine)
    /\ \E ok \in YieldReturns(Nil) :
         /\ Yield(workingLine, Nil, "flush", workingLine, ok)
         /\ IF ok
            THEN /\ workingLine' = <<>>
                 /\ spacePos' = ZeroPos
                 /\ lastPos' = ZeroPos
                 /\ cluster' = Head(gr)
                 /\ gr' = Tail(gr)
                 /\ pc' = "oversized"
            ELSE /\ pc' = "break"
                 /\ UNCHANGED <<workingLine, spacePos, lastPos, cluster, gr>>
    /\ UNCHANGED <<s, byteLimit, sb, consumer, runes, ret, wrapRet>>

\* Pre-check, second half: the oversized cluster is yielded with the error.
PreCheckError ==
    /\ \/ pc = "oversized"
       \/ /\ pc = "loop" /\ gr # <<>>
          /\ Oversized(Head(gr)) /\ ~sb.breakGraphemeClusters
          /\ ~FlushBeforeError(workingLine)
    /\ LET c == IF pc = "oversized" THEN cluster ELSE Head(gr) IN
       \E ok \in YieldReturns(ErrGraphemeClusterTooLarge) :
            /\ Yield(c, ErrGraphemeClusterTooLarge, "oversized", c, ok)
            /\ pc' = AfterError(ok)
    /\ gr' = IF pc = "oversized" THEN gr ELSE Tail(gr)
    /\ cluster' = <<>>
    /\ UNCHANGED <<s, byteLimit, sb, consumer, runes, workingLine, spacePos,
                   lastPos, ret, wrapRet>>

\* Bisection: one turn of the loop over the scalar values of an oversized
\* cluster.
BisectRune ==
    /\ \/ pc = "runes"
       \/ /\ pc = "loop" /\ gr # <<>>
          /\ sb.breakGraphemeClusters /\ Oversized(Head(gr))
    /\ LET rs == IF pc = "runes" THEN runes ELSE RangeRunes(Head(gr))
           runeBytes == RuneBytes(Head(rs))
           runeSize == Len(runeBytes)
           wl == workingLine \o runeBytes
           more == IF Tail(rs) = <<>> THEN "loop" ELSE "runes"
       IN
       /\ runes' = Tail(rs)
       /\ IF Len(wl) >= byteLimit
          THEN \E ok \in YieldReturns(Nil) :
                    /\ Yield(wl, Nil, "bisect", wl, ok)
                    /\ IF ok
                       THEN /\ workingLine' = <<>>
                            /\ spacePos' = ZeroPos
                            /\ lastPos' = charPos(0, runeSize)
                            /\ pc' = more
                       ELSE /\ workingLine' = wl
                            /\ pc' = "break"
                            /\ UNCHANGED <<spacePos, lastPos>>
          ELSE /\ workingLine' = wl
               /\ lastPos' = charPos(Len(wl), runeSize)
               /\ pc' = more
               /\ UNCHANGED <<spacePos, yielded, lines, firstErr>>
    /\ gr' = IF pc = "runes" THEN gr ELSE Tail(gr)
    /\ UNCHANGED <<s, byteLimit, sb, consumer, cluster, ret, wrapRet>>

\* Variant: a space break leaves the whitespace cluster out of the line.
BudgetCheck_DropSpace(wl, sp, lp) ==
    IF Len(wl) < byteLimit THEN [site |-> "none"]
    ELSE IF sp.size > 0 THEN
        [site |-> "space", raw |-> SubSeq(wl, 1, sp.pos - sp.size), err |-> Nil,
         rest |-> SubSeq(wl, sp.pos + 1, Len(wl))]
    ELSE IF Len(wl) > byteLimit THEN
        IF lp.pos = 0
        THEN [site |-> "single", raw |-> wl, err |-> ErrGraphemeClusterTooLarge,
              rest |-> <<>>]
        ELSE [site |-> "fallback", raw |-> SubSeq(wl, 1, lp.pos), err |-> Nil,
              rest |-> SubSeq(wl, lp.pos + 1, Len(wl))]
    ELSE [site |-> "exact", raw |-> wl, err |-> Nil, rest |-> <<>>]

\* Variant: the fallback break cuts at byteLimit bytes, not at lastPos.
BudgetCheck_ByteCut(wl, sp, lp) ==
    IF Len(wl) < byteLimit THEN [site |-> "none"]
    ELSE IF sp.size > 0 THEN
        [site |-> "space", raw |-> SubSeq(wl, 1, sp.pos), err |-> Nil,
         rest |-> SubSeq(wl, sp.pos + 1, Len(wl))]
    ELSE IF Len(wl) > byteLimit THEN
        IF lp.pos = 0
        THEN [site |-> "single", raw |-> wl, err |-> ErrGraphemeClusterTooLarge,
              rest |-> <<>>]
        ELSE [site |-> "fallback", raw |-> SubSeq(wl, 1, byteLimit), err |-> Nil,
              rest |-> SubSeq(wl, byteLimit + 1, Len(wl))]
    ELSE [site |-> "exact", raw |-> wl, err |-> Nil, rest |-> <<>>]

\* Variant: the last-safe candidate is tried before the space candidate.
BudgetCheck_PreferLastPos(wl, sp, lp) ==
    IF Len(wl) < byteLimit THEN [site |-> "none"]
    ELSE IF Len(wl) > byteLimit /\ lp.pos # 0 THEN
        [site |-> "fallback", raw |-> SubSeq(wl, 1, lp.pos), err |-> Nil,
         rest |-> SubSeq(wl, lp.pos + 1, Len(wl))]
    ELSE IF sp.size > 0 THEN
        [site |-> "space", raw |-> SubSeq(wl, 1, sp.pos), err |-> Nil,
         rest |-> SubSeq(wl, sp.pos + 1, Len(wl))]
    ELSE IF Len(wl) > byteLimit THEN
        [site |-> "single", raw |-> wl, err |-> ErrGraphemeClusterTooLarge,
         rest |-> <<>>]
    ELSE [site |-> "exact", raw |-> wl, err |-> Nil, rest |-> <<>>]

\* Variant: the budget check fires only when the working line exceeds
\* byteLimit.
BudgetCheck_OnlyOver(wl, sp, lp) ==
    IF Len(wl) <= byteLimit THEN [site |-> "none"]
    ELSE IF sp.size > 0 THEN
        [site |-> "space", raw |-> SubSeq(wl, 1, sp.pos), err |-> Nil,
         rest |-> SubSeq(wl, sp.pos + 1, Len(wl))]
    ELSE IF lp.pos = 0
        THEN [site |-> "single", raw |-> wl, err |-> ErrGraphemeClusterTooLarge,
              rest |-> <<>>]
        ELSE [site |-> "fallback", raw |-> SubSeq(wl, 1, lp.pos), err |-> Nil,
              rest |-> SubSeq(wl, lp.pos + 1, Len(wl))]

\* Variant: the budget check fires one byte early.
BudgetCheck_Early(wl, sp, lp) ==
    IF Len(wl) + 1 < byteLimit THEN [site |-> "none"]
    ELSE IF sp.size > 0 THEN
        [site |-> "space", raw |-> SubSeq(wl, 1, sp.pos), err |-> Nil,
         rest |-> SubSeq(wl, sp.pos + 1, Len(wl))]
    ELSE IF Len(wl) > byteLimit THEN
        IF lp.pos = 0
        THEN [site |-> "single", raw |-> wl, err |-> ErrGraphemeClusterTooLarge,
              rest |-> <<>>]
        ELSE [site |-> "fallback", raw |-> SubSeq(wl, 1, lp.pos), err |-> Nil,
              rest |-> SubSeq(wl, lp.pos + 1, Len(wl))]
    ELSE [site |-> "exact", raw |-> wl, err |-> Nil, rest |-> <<>>]

\* The budget check on the working line wl after a normal append, with space
\* candidate sp and last-safe candidate lp: what is yielded, and what stays.
BudgetCheck(wl, sp, lp) ==
    IF Len(wl) < byteLimit THEN [site |-> "none"]
    ELSE IF sp.size > 0 THEN
        IF sp.pos > Len(wl) THEN [site |-> "panic"]
        ELSE [site |-> "space", raw |-> SubSeq(wl, 1, sp.pos), err |-> Nil,
              rest |-> SubSeq(wl, sp.pos + 1, Len(wl))]
    ELSE IF Len(wl) > byteLimit THEN
        IF lp.pos = 0
        THEN [site |-> "single", raw |-> wl, err |-> ErrGraphemeClusterTooLarge,
              rest |-> <<>>]
        ELSE IF lp.pos > Len(wl) THEN [site |-> "panic"]
        ELSE [site |-> "fallback", raw |-> SubSeq(wl, 1, lp.pos), err |-> Nil,
              rest |-> SubSeq(wl, lp.pos + 1, Len(wl))]
    ELSE [site |-> "exact", raw |-> wl, err |-> Nil, rest |-> <<>>]

\* Variant: the space candidate survives the emission of a line.
SpacePosAfterEmit_Keep(sp) == sp

\* `spacePos = charPos{}` once the budget check has emitted a line; sp is the
\* candidate the check worked with.
SpacePosAfterEmit(sp) == ZeroPos

\* Normal append of a cluster that fits, followed by the budget check.
AppendCluster ==
    /\ pc = "loop" /\ gr # <<>>
    /\ ~Oversized(Head(gr))
    /\ LET c == Head(gr)
           clusterSize == Len(c)
           wl == workingLine \o c
           sp == IF IsSpace(DecodeRuneInString(c))
                 THEN charPos(Len(wl), clusterSize) ELSE spacePos
           b == BudgetCheck(wl, sp, lastPos)
       IN
       /\ gr' = Tail(gr)
       /\ CASE b.site = "none" ->
                 /\ workingLine' = wl
                 /\ spacePos' = sp
                 /\ lastPos' = charPos(Len(wl), clusterSize)
                 /\ pc' = "loop"
                 /\ UNCHANGED <<yielded, lines, firstErr>>
            [] b.site = "panic" ->
                 /\ workingLine' = wl
                 /\ spacePos' = sp
                 /\ pc' = "panic"
                 /\ UNCHANGED <<lastPos, yielded, lines, firstErr>>
            [] OTHER ->
                 \E ok \in YieldReturns(b.err) :
                      /\ Yield(b.raw, b.err, b.site, wl, ok)
                      /\ IF ok /\ (b.err = Nil \/ sb.continueOnError)
                         THEN /\ workingLine' = b.rest
                              /\ spacePos' = SpacePosAfterEmit(sp)
                              /\ lastPos' = charPos(Len(b.rest), clusterSize)
                              /\ pc' = "loop"
                         ELSE /\ workingLine' = wl
                              /\ spacePos' = sp
                              /\ pc' = IF ok THEN "error" ELSE "break"
                              /\ UNCHANGED lastPos
    /\ UNCHANGED <<s, byteLimit, sb, consumer, cluster, runes, ret, wrapRet>>

\* Variant: the final flush is not guarded.
FlushAtEnd_Always(wl) == TRUE

\* `if workingLine.Len() > 0` after the loop: is there a last line to yield?
FlushAtEnd(wl) == Len(wl) > 0

\* After the loop: what is left in the working line is yielded, and Split
\* returns whatever yield answers.
FinalFlush ==
    /\ pc = "loop" /\ gr = <<>>
    /\ IF FlushAtEnd(workingLine)
       THEN LET err == IF Len(workingLine) > byteLimit
                       THEN ErrGraphemeClusterTooLarge ELSE Nil
            IN \E ok \in YieldReturns(err) :
                  Yield(workingLine, err, "final", workingLine, ok)
       ELSE UNCHANGED <<yielded, lines, firstErr>>
    /\ pc' = "end"
    /\ UNCHANGED <<s, byteLimit, sb, consumer, gr, cluster, runes, workingLine,
                   spacePos, lastPos, ret, wrapRet>>

\* ---------------------------------------------- the uninterrupted pass
\* Split as a function: the (line, err) pairs an iteration that is never
\* stopped by its consumer receives, for flags coe (continueOnError), brk
\* (breakGraphemeClusters) and trim (trimTrailingWhiteSpace).
Emit(out, raw, err, trim) ==
    Append(out, [line |-> IF trim THEN TrimRight(raw) ELSE raw, err |-> err])

\* The loop over the scalar values rs of a cluster that is bisected.
RECURSIVE PassRunes(_, _, _, _, _, _)
PassRunes(rs, wl, sp, lp, out, trim) ==
    IF rs = <<>> THEN [wl |-> wl, sp |-> sp, lp |-> lp, out |-> out]
    ELSE LET runeBytes == RuneBytes(Head(rs))
             wl1 == wl \o runeBytes
         IN IF Len(wl1) >= byteLimit
            THEN PassRunes(Tail(rs), <<>>, ZeroPos, charPos(0, Len(runeBytes)),
                           Emit(out, wl1, Nil, trim), trim)
            ELSE PassRunes(Tail(rs), wl1, sp, charPos(Len(wl1), Len(runeBytes)),
                           out, trim)

\* The loop over the clusters g, and the final flush.
RECURSIVE PassClusters(_, _, _, _, _, _, _, _)
PassClusters(g, wl, sp, lp, out, coe, brk, trim) ==
    IF g = <<>>
    THEN IF Len(wl) > 0
         THEN Emit(out, wl, IF Len(wl) > byteLimit
                            THEN ErrGraphemeClusterTooLarge ELSE Nil, trim)
         ELSE out
    ELSE LET c == Head(g) IN
      IF Len(c) > byteLimit /\ ~brk THEN
          LET flushed == Len(wl) > 0
              out1 == IF flushed THEN Emit(out, wl, Nil, trim) ELSE out
              out2 == Emit(out1, c, ErrGraphemeClusterTooLarge, trim)
          IN IF ~coe THEN out2
             ELSE PassClusters(Tail(g), <<>>, IF flushed THEN ZeroPos ELSE sp,
                               IF flushed THEN ZeroPos ELSE lp, out2, coe, brk, trim)
      ELSE IF brk /\ Len(c) > byteLimit THEN
          LET r == PassRunes(RangeRunes(c), wl, sp, lp, out, trim) IN
          PassClusters(Tail(g), r.wl, r.sp, r.lp, r.out, coe, brk, trim)
      ELSE
          LET wl1 == wl \o c
              sp1 == IF IsSpace(DecodeRuneInString(c))
                     THEN charPos(Len(wl1), Len(c)) ELSE sp
              b == BudgetCheck(wl1, sp1, lp)
          IN CASE b.site = "none" ->
                    PassClusters(Tail(g), wl1, sp1, charPos(Len(wl1), Len(c)),
                                 out, coe, brk, trim)
               [] b.site = "panic" -> out
               [] OTHER ->
                    IF b.err # Nil /\ ~coe
                    THEN Emit(out, b.raw, b.err, trim)
                    ELSE PassClusters(Tail(g), b.rest, ZeroPos,
                                      charPos(Len(b.rest), Len(c)),
                                      Emit(out, b.raw, b.err, trim), coe, brk, trim)

Pass(str, coe, brk, trim) ==
    PassClusters(Graphemes(str), <<>>, ZeroPos, ZeroPos, <<>>, coe, brk, trim)

\* Variant: sep ends every element instead of separating them.
RECURSIVE join_Terminator(_, _)
join_Terminator(a, sep) ==
    IF a = <<>> THEN <<>> ELSE Head(a) \o sep \o join_Terminator(Tail(a), sep)

\* join(a, sep)
RECURSIVE joinTail(_, _)
joinTail(a, sep) ==
    IF a = <<>> THEN <<>> ELSE sep \o Head(a) \o joinTail(Tail(a), sep)

join(a, sep) ==
    IF Len(a) = 0 THEN <<>>
    ELSE IF Len(a) = 1 THEN a[1]
    ELSE a[1] \o joinTail(Tail(a), sep)

\* SplitBuilder.SplitString returns, from inside its loop or after it.
SplitStringReturn ==
    /\ consumer = "SplitString"
    /\ pc \in {"end", "error", "break"}
    /\ ret = NoRet
    /\ ret' = [lines |-> lines, err |-> firstErr]
    /\ UNCHANGED <<s, byteLimit, sb, consumer, gr, cluster, runes, workingLine,
                   spacePos, lastPos, yielded, pc, lines, firstErr, wrapRet>>

\* WrapString, which calls the package-level SplitString, returns.
WrapStringReturn ==
    /\ sb = DefaultSplitBuilder
    /\ ret # NoRet
    /\ wrapRet = NoRet
    /\ wrapRet' = IF ret.err # Nil
                  THEN [str |-> <<>>, err |-> ret.err]
                  ELSE [str |-> join(ret.lines, <<10>>), err |-> Nil]
    /\ UNCHANGED <<s, byteLimit, sb, consumer, gr, cluster, runes, workingLine,
                   spacePos, lastPos, yielded, pc, lines, firstErr, ret>>

Next ==
    \/ PreCheckFlush
    \/ PreCheckError
    \/ BisectRune
    \/ AppendCluster
    \/ FinalFlush
    \/ SplitStringReturn
    \/ WrapStringReturn

Spec == Init /\ [][Next]_vars

\* ------------------------------------------------------------ properties
\* Definitions used to state the properties.
Lines(ys) == [i \in 1..Len(ys) |-> ys[i].line]
Raws(ys) == [i \in 1..Len(ys) |-> ys[i].raw]

\* Offset in the input at which the i-th yielded line starts.
RawStart(i) == Len(Flatten(SubSeq(Raws(yielded), 1, i - 1)))

\* Offsets of the input at which a grapheme cluster ends (0 included).
ClusterEnds(str) ==
    LET g == Graphemes(str) IN { Len(Flatten(SubSeq(g, 1, k))) : k \in 0..Len(g) }

HasOversized(str) ==
    LET g == Graphemes(str) IN \E k \in 1..Len(g) : Len(g[k]) > byteLimit

ErrorYielded == \E i \in 1..Len(yielded) : yielded[i].err # Nil

\* C1: with bisection off, every line yielded with a nil error is at most
\* byteLimit bytes long, whichever emission produced it.
C1_OkLinesWithinLimit ==
    ~sb.breakGraphemeClusters =>
        \A i \in 1..Len(yielded) :
            yielded[i].err = Nil => Len(yielded[i].line) <= byteLimit

\* C2: with trimming off, when the pass has run to the end of the input (no
\* error was yielded, or continueOnError is on), the yielded lines, ok and
\* error lines alike, concatenated in order are the input.
C2_Partition ==
    (/\ pc = "end"
     /\ ~sb.trimTrailingWhiteSpace
     /\ (~ErrorYielded \/ sb.continueOnError))
        => Flatten(Lines(yielded)) = s

C2_Witness ==
    /\ pc = "end"
    /\ ~sb.trimTrailingWhiteSpace
    /\ sb.continueOnError
    /\ Len(yielded) >= 3
    /\ yielded[1].err = Nil
    /\ yielded[2].err # Nil
    /\ Flatten(Lines(yielded)) = s

\* C3: in the default configuration every position at which one yielded line
\* ends and the next begins is a grapheme cluster boundary of the input.
C3_NoClusterSplit ==
    sb = DefaultSplitBuilder =>
        LET ends == ClusterEnds(s) IN
        \A i \in 1..Len(yielded) :
            Len(Flatten(SubSeq(Lines(yielded), 1, i))) \in ends

\* A fallback break in front of a three-byte cluster that follows a two-rune
\* cluster.
C3_Witness ==
    /\ sb = DefaultSplitBuilder
    /\ Len(yielded) >= 2
    /\ yielded[1].site = "fallback"
    /\ Len(Graphemes(s)) < MaxLen
    /\ \E k \in 1..Len(Graphemes(s)) : Len(Graphemes(s)[k]) = 3

\* C4: in the default configuration, if some grapheme cluster of the input is
\* larger than byteLimit then SplitString and WrapString return
\* ErrGraphemeClusterTooLarge, wherever the cluster sits.
C4_OversizedIsReported ==
    (sb = DefaultSplitBuilder /\ HasOversized(s)) =>
        /\ ret # NoRet => ret.err = ErrGraphemeClusterTooLarge
        /\ wrapRet # NoRet => wrapRet.err = ErrGraphemeClusterTooLarge

\* The oversized cluster sits inside the input, after lines already yielded.
C4_Witness ==
    /\ sb = DefaultSplitBuilder
    /\ wrapRet # NoRet
    /\ wrapRet.err = ErrGraphemeClusterTooLarge
    /\ Len(yielded) >= 2
    /\ gr # <<>>
    /\ ~Oversized(Graphemes(s)[1])

\* C5: for an input in which every cluster fits within byteLimit no yielded
\* line carries an error and SplitString returns a nil error.
C5_ErrorOnlyIfOversized ==
    ~HasOversized(s) =>
        /\ ~ErrorYielded
        /\ ret # NoRet => ret.err = Nil

\* Offsets of the input at which a whitespace cluster that fits within
\* byteLimit (one that a normal append puts into the working line) ends.
WhitespaceEnds(str) ==
    LET g == Graphemes(str) IN
    { Len(Flatten(SubSeq(g, 1, k))) :
        k \in { j \in 1..Len(g) : /\ Len(g[j]) <= byteLimit
                                  /\ IsSpace(DecodeRuneInString(g[j])) } }

SetMax(S) == CHOOSE m \in S : \A e \in S : e <= m

\* The whitespace clusters held in the working line when line i was yielded.
HeldSpaces(i) ==
    LET st == RawStart(i) IN
    { e \in WhitespaceEnds(s) : st < e /\ e <= st + Len(yielded[i].wl) }

\* Line i was cut just past the most recent whitespace cluster held in the
\* working line, if there was one.
CutAtSpace(i) ==
    HeldSpaces(i) # {} => RawStart(i) + Len(yielded[i].raw) = SetMax(HeldSpaces(i))

\* The lines yielded by the budget check that follows a normal append.
BudgetSites == {"space", "fallback", "exact", "single"}

\* C6 as stated: whenever Split ends a line while the working line holds a
\* whitespace cluster appended since the last emission, the line is cut just
\* past the most recent such cluster.
C6_SpaceWinsEverywhere == \A i \in 1..Len(yielded) : CutAtSpace(i)

\* C6 amended: whenever the budget check after a normal append ends a line
\* while the working line holds a whitespace cluster appended since the last
\* emission, the line is cut just past the most recent such cluster and not
\* at the last-safe position.
C6_SpaceWinsAtBudgetCheck ==
    \A i \in 1..Len(yielded) : yielded[i].site \in BudgetSites => CutAtSpace(i)

\* A space break where a later cluster boundary would still fit the limit.
C6_Witness ==
    \E i \in 1..Len(yielded) :
        /\ yielded[i].site = "space"
        /\ \E e \in ClusterEnds(s) :
            /\ RawStart(i) + Len(yielded[i].raw) < e
            /\ e < RawStart(i) + Len(yielded[i].wl)
            /\ e - RawStart(i) <= byteLimit

\* C7: with continueOnError off, once a line with an error has been yielded
\* nothing more is yielded and no further cluster is processed; an error is
\* only ever on the last yielded line, so there is at most one.
C7_StopAfterError ==
    [][ ~sb.continueOnError =>
          /\ ErrorYielded =>
                UNCHANGED <<yielded, gr, runes, workingLine, spacePos, lastPos>>
          /\ \A i \in 1..Len(yielded') :
                yielded'[i].err # Nil => i = Len(yielded') ]_vars

\* The pass stopped at an error after an ok line, leaving clusters unread.
C7_Witness ==
    /\ ~sb.continueOnError
    /\ pc = "error"
    /\ Len(yielded) >= 2
    /\ yielded[Len(yielded)].err # Nil
    /\ gr # <<>>

\* C8: with continueOnError on and bisection off, the pass is never ended by
\* an error; when the loop resumes after an error line (no cluster read since)
\* the working line is empty and there are no break candidates; and at the end every cluster larger than
\* byteLimit was yielded as a line of its own carrying the error, every
\* cluster of the input having been yielded.
C8_ContinueOnError ==
    (sb.continueOnError /\ ~sb.breakGraphemeClusters) =>
        /\ pc # "error"
        /\ (/\ pc = "loop" /\ yielded # <<>> /\ yielded[Len(yielded)].err # Nil
            /\ Len(Flatten(Raws(yielded))) + Len(Flatten(gr)) = Len(s)) =>
              /\ workingLine = <<>>
              /\ spacePos.size = 0
              /\ lastPos.pos = 0
        /\ pc = "end" =>
              LET g == Graphemes(s) IN
              /\ Flatten(Raws(yielded)) = s
              /\ \A k \in 1..Len(g) :
                    Len(g[k]) > byteLimit =>
                        \E i \in 1..Len(yielded) :
                            /\ RawStart(i) = Len(Flatten(SubSeq(g, 1, k - 1)))
                            /\ yielded[i].raw = g[k]
                            /\ yielded[i].line = Trimmed(g[k])
                            /\ yielded[i].err = ErrGraphemeClusterTooLarge

\* An error line in the middle of the output, with an ok line after it.
C8_Witness ==
    /\ sb.continueOnError /\ ~sb.breakGraphemeClusters
    /\ pc = "end"
    /\ \E i \in 2..(Len(yielded) - 1) :
          /\ yielded[i].err # Nil
          /\ yielded[i + 1].err = Nil
          /\ yielded[i - 1].err = Nil

\* C9: in the default configuration, when SplitString returns a non-nil
\* error the line sequence it returns is empty.
C9_NoPartialOutput ==
    (sb = DefaultSplitBuilder /\ ret # NoRet /\ ret.err # Nil) => ret.lines = <<>>

\* Offset in the joined string at which element i of a starts.
JoinedStart(a, i) == Len(Flatten(SubSeq(a, 1, i - 1))) + (i - 1)

\* C10: WrapString returns an error exactly when SplitString does, and then
\* the empty string; otherwise SplitString's lines in order with one "\n"
\* between consecutive lines and nothing before the first or after the last.
C10_WrapIsJoinedSplit ==
    wrapRet # NoRet =>
        /\ wrapRet.err = ret.err
        /\ ret.err # Nil => wrapRet.str = <<>>
        /\ ret.err = Nil =>
              LET a == ret.lines
                  n == Len(a)
              IN
              /\ Len(wrapRet.str) = Len(Flatten(a)) + (IF n = 0 THEN 0 ELSE n - 1)
              /\ \A i \in 1..n :
                    SubSeq(wrapRet.str, JoinedStart(a, i) + 1,
                           JoinedStart(a, i) + Len(a[i])) = a[i]
              /\ \A i \in 2..n : wrapRet.str[JoinedStart(a, i)] = 10

C10_Witness ==
    /\ wrapRet # NoRet
    /\ wrapRet.err = Nil
    /\ Len(ret.lines) >= 3
    /\ Len(wrapRet.str) >= 5

\* The (line, err) pairs the consumer has received.
Received == [i \in 1..Len(yielded) |-> [line |-> yielded[i].line, err |-> yielded[i].err]]

IsPrefix(a, b) == Len(a) <= Len(b) /\ SubSeq(b, 1, Len(a)) = a

\* line is raw with its trailing space, tab, newline and carriage-return
\* bytes removed.
IsRightTrimOf(line, raw) ==
    /\ IsPrefix(line, raw)
    /\ \A k \in (Len(line) + 1)..Len(raw) : raw[k] \in {32, 9, 10, 13}
    /\ line # <<>> => line[Len(line)] \notin {32, 9, 10, 13}

\* C11: trimming never changes where lines break. After every step that
\* yields a line or moves the pass on, the lines received so far match, one
\* for one, the first lines of the uninterrupted pass with trimming off and
\* the same other two flags: same error status, and the same line,
\* right-trimmed when trimming is on; a pass that ran to its end has as many
\* lines as that pass.
C11_TrimKeepsBreaks ==
    [][ (yielded' # yielded \/ pc' # pc) =>
          LET off == Pass(s, sb.continueOnError, sb.breakGraphemeClusters, FALSE) IN
          /\ Len(yielded') <= Len(off)
          /\ pc' \in {"end", "error"} => Len(yielded') = Len(off)
          /\ \A i \in 1..Len(yielded') :
                /\ yielded'[i].err = off[i].err
                /\ IF sb.trimTrailingWhiteSpace
                   THEN IsRightTrimOf(yielded'[i].line, off[i].line)
                   ELSE yielded'[i].line = off[i].line ]_vars

\* A pass with trimming on that ran to its end, with a line that trimming
\* shortened followed by another line.
C11_Witness ==
    /\ sb.trimTrailingWhiteSpace
    /\ pc = "end"
    /\ Len(yielded) >= 2
    /\ Len(yielded[1].line) < Len(yielded[1].raw)
    /\ yielded[1].line # <<>>

\* C12: a non-empty input strictly shorter than byteLimit is yielded as
\* exactly one line, with a nil error, equal to the input (right-trimmed when
\* trimming is on), and only by the final flush; WrapString returns the input
\* unchanged.
C12_ShortInputOneLine ==
    (s # <<>> /\ Len(s) < byteLimit) =>
        /\ pc # "end" => yielded = <<>>
        /\ pc \in {"loop", "end"}
        /\ pc = "end" =>
              /\ Len(yielded) = 1
              /\ yielded[1].err = Nil
              /\ IF sb.trimTrailingWhiteSpace
                 THEN IsRightTrimOf(yielded[1].line, s)
                 ELSE yielded[1].line = s
        /\ ret # NoRet => ret = [lines |-> <<yielded[1].line>>, err |-> Nil]
        /\ wrapRet # NoRet => wrapRet = [str |-> s, err |-> Nil]

\* WrapString returned for an input of several clusters, one of them
\* whitespace, one byte short of byteLimit.
C12_Witness ==
    /\ wrapRet # NoRet
    /\ Len(s) + 1 = byteLimit
    /\ Len(Graphemes(s)) >= 2
    /\ \E k \in 1..(Len(s) - 1) : s[k] = 32

\* C13: for the empty input Split yields no line at all, whatever byteLimit
\* and the flags; SplitString returns no lines and a nil error, WrapString
\* the empty string.
C13_EmptyInput ==
    s = <<>> =>
        /\ yielded = <<>>
        /\ pc \in {"loop", "end"}
        /\ ret # NoRet => ret = [lines |-> <<>>, err |-> Nil]
        /\ wrapRet # NoRet => wrapRet = [str |-> <<>>, err |-> Nil]

C13_Witness ==
    /\ s = <<>>
    /\ pc = "end"
    /\ ret # NoRet
    /\ wrapRet # NoRet

\* C14: with breakGraphemeClusters on, no yielded line carries an error,
\* whatever the input, byteLimit and continueOnError.
C14_BisectionNeverErrors ==
    sb.breakGraphemeClusters => ~ErrorYielded

\* C15 as stated: every line yielded with ErrGraphemeClusterTooLarge is
\* longer than byteLimit, in every configuration, trimming on included.
C15_ErrorLinesOverLimit ==
    \A i \in 1..Len(yielded) :
        yielded[i].err # Nil => Len(yielded[i].line) > byteLimit

\* C15 amended: every line yielded with ErrGraphemeClusterTooLarge is longer
\* than byteLimit before its trailing whitespace is trimmed; with trimming off
\* the yielded line itself is longer than byteLimit.
C15_ErrorLinesOverLimitBeforeTrim ==
    \A i \in 1..Len(yielded) :
        yielded[i].err # Nil =>
            /\ Len(yielded[i].raw) > byteLimit
            /\ ~sb.trimTrailingWhiteSpace => Len(yielded[i].line) > byteLimit

\* Two error lines in one pass: one yielded longer than byteLimit, and one
\* that was longer than byteLimit only before trimming.
C15_Witness ==
    \E i, j \in 1..Len(yielded) :
        /\ yielded[i].err # Nil /\ Len(yielded[i].line) > byteLimit
        /\ yielded[j].err # Nil /\ Len(yielded[j].line) <= byteLimit
        /\ Len(yielded[j].raw) > byteLimit

\* The first n clusters of the input, each reported alone as an error line.
OneErrorPerCluster(n, exact) ==
    LET g == Graphemes(s) IN
    /\ n <= Len(g)
    /\ \A i \in 1..n :
          /\ yielded[i].err = ErrGraphemeClusterTooLarge
          /\ yielded[i].raw = g[i]
          /\ yielded[i].line = IF exact THEN g[i] ELSE Trimmed(g[i])

\* How many lines a pass at byteLimit 0 without bisection has yielded when it
\* is over: one per cluster under continue-on-error, else only the first.
ZeroLimitCount ==
    /\ ~sb.continueOnError => Len(yielded) <= 1
    /\ (~sb.continueOnError /\ pc = "error") => Len(yielded) = 1
    /\ (sb.continueOnError /\ pc = "end") => Len(yielded) = Len(Graphemes(s))

\* C16 as stated: with byteLimit 0 and bisection off every yielded line is
\* exactly one cluster, carrying ErrGraphemeClusterTooLarge; the default
\* configuration yields only the first cluster, continue-on-error one error
\* line per cluster.
C16_ZeroLimitExactClusters ==
    (byteLimit = 0 /\ ~sb.breakGraphemeClusters) =>
        OneErrorPerCluster(Len(yielded), TRUE) /\ ZeroLimitCount

\* C16 amended: with byteLimit 0 and bisection off the i-th yielded line is
\* the i-th cluster alone, right-trimmed when trimming is on, carrying
\* ErrGraphemeClusterTooLarge; no ok line is yielded; without continue-on-error
\* only the first cluster is yielded, with it one error line per cluster.
C16_ZeroLimitTrimmedClusters ==
    (byteLimit = 0 /\ ~sb.breakGraphemeClusters) =>
        OneErrorPerCluster(Len(yielded), FALSE) /\ ZeroLimitCount

\* A finished continue-on-error pass at byteLimit 0 over three clusters or
\* more, one of them a multi-scalar cluster.
C16_Witness ==
    /\ byteLimit = 0 /\ ~sb.breakGraphemeClusters /\ sb.continueOnError
    /\ pc = "end"
    /\ Len(yielded) >= 3
    /\ \E i \in 1..Len(yielded) : Len(RangeRunes(yielded[i].raw)) >= 2

\* C17: once yield has returned false, Split never calls yield again and
\* returns without reading further, whatever the emission site and the
\* configuration; the lines received are the first lines of the uninterrupted
\* pass on the same input with the same flags.
C17_ConsumerStop ==
    [][ /\ (yielded # <<>> /\ ~yielded[Len(yielded)].ok) =>
              /\ pc \in {"break", "end"} /\ pc' = pc
              /\ UNCHANGED <<yielded, gr, runes, workingLine, spacePos, lastPos>>
        /\ \A i \in 1..(Len(yielded') - 1) : yielded'[i].ok
        /\ yielded' # yielded =>
              IsPrefix(Received', Pass(s, sb.continueOnError,
                                       sb.breakGraphemeClusters,
                                       sb.trimTrailingWhiteSpace)) ]_vars

\* The consumer stopped after the second line or later, at a site other than
\* the final flush, with lines of the uninterrupted pass still to come.
C17_Witness ==
    /\ pc = "break"
    /\ Len(yielded) >= 2
    /\ ~yielded[Len(yielded)].ok
    /\ yielded[Len(yielded)].site \in {"space", "fallback", "bisect"}
    /\ Len(Pass(s, sb.continueOnError, sb.breakGraphemeClusters,
                sb.trimTrailingWhiteSpace)) > Len(yielded) + 1

\* Byte offsets of the emoji cluster in the scenario input: it covers the
\* bytes EmojiStart + 1 .. EmojiEnd.
EmojiStart == 8
EmojiEnd == EmojiStart + Len(FamilyEmoji)

\* The scenario pass with bisection allowed has run to its end.
ScenarioDone ==
    /\ s = ScenarioInput /\ byteLimit = ScenarioLimit
    /\ sb.breakGraphemeClusters
    /\ pc = "end"

\* C18 as stated: with bisection allowed, the scenario input at byteLimit 30
\* has the scalar values of the emoji cluster on two different lines (a line
\* ends strictly inside the cluster), and no error is yielded.
C18_EmojiOnTwoLines ==
    ScenarioDone =>
        /\ \E i \in 1..Len(yielded) :
              LET e == RawStart(i) + Len(yielded[i].raw) IN
              EmojiStart < e /\ e < EmojiEnd
        /\ ~ErrorYielded

\* C18 amended: with bisection allowed, the scenario input at byteLimit 30 is
\* split into "abcdefgh", the whole emoji cluster followed by "ijklm", and
\* "n"; the 25-byte cluster fits the limit, is not bisected, and no error is
\* yielded.
C18_EmojiKeptWhole ==
    ScenarioDone =>
        /\ Lines(yielded) = << SubSeq(ScenarioInput, 1, EmojiStart),
                               SubSeq(ScenarioInput, EmojiStart + 1, EmojiEnd + 5),
                               SubSeq(ScenarioInput, EmojiEnd + 6, Len(ScenarioInput)) >>
        /\ ~ErrorYielded

\* The scenario pass with bisection allowed ended after its third line.
C18_Witness ==
    /\ ScenarioDone
    /\ Len(yielded) = 3
    /\ Len(FamilyEmoji) = 25 /\ Len(RangeRunes(FamilyEmoji)) = 7
    /\ Graphemes(ScenarioInput)[9] = FamilyEmoji

\* The scan stands at the loop top in front of a cluster that is larger than
\* byteLimit, with bisection off and a non-empty working line.
MeetsOversized ==
    /\ pc = "loop" /\ gr # <<>>
    /\ Len(Head(gr)) > byteLimit /\ ~sb.breakGraphemeClusters
    /\ workingLine # <<>>

\* C19: with bisection off, when the scan meets a cluster larger than
\* byteLimit while the working line is non-empty, the next line yielded is the
\* whole working line with no error, and (unless the consumer stops there) the
\* line after it is the oversized cluster alone with the error; an error line
\* of the pre-check is yielded only with an empty working line and holds the
\* bytes of that one cluster, at its place in the input.
C19_FlushThenError ==
    [][ /\ MeetsOversized =>
              /\ Len(yielded') = Len(yielded) + 1
              /\ yielded'[Len(yielded')].err = Nil
              /\ yielded'[Len(yielded')].raw = workingLine
              /\ yielded'[Len(yielded')].line = Trimmed(workingLine)
              /\ IF yielded'[Len(yielded')].ok
                 THEN pc' = "oversized" /\ cluster' = Head(gr) /\ workingLine' = <<>>
                 ELSE pc' = "break"
        /\ pc = "oversized" =>
              /\ yielded # <<>> /\ yielded[Len(yielded)].site = "flush"
              /\ Len(yielded') = Len(yielded) + 1
              /\ yielded'[Len(yielded')].err = ErrGraphemeClusterTooLarge
              /\ yielded'[Len(yielded')].raw = cluster
        /\ \A i \in (Len(yielded) + 1)..Len(yielded') :
              yielded'[i].site = "oversized" =>
                  /\ workingLine = <<>>
                  /\ \E k \in 1..Len(Graphemes(s)) :
                        /\ yielded'[i].raw = Graphemes(s)[k]
                        /\ Len(yielded'[i].raw) > byteLimit
                        /\ Len(Flatten(Raws(yielded))) =
                              Len(Flatten(SubSeq(Graphemes(s), 1, k - 1)))
                  /\ Flatten(Raws(yielded')) \o Flatten(gr') = s ]_vars

\* A working line ending in whitespace was flushed as an ok line, trimmed,
\* and the oversized cluster of two scalar values behind it was then yielded
\* alone with the error.
C19_Witness ==
    \E i \in 2..Len(yielded) :
        /\ yielded[i].site = "oversized" /\ yielded[i].err # Nil
        /\ Len(RangeRunes(yielded[i].raw)) >= 2
        /\ yielded[i - 1].site = "flush" /\ yielded[i - 1].err = Nil
        /\ yielded[i - 1].line # yielded[i - 1].raw

\* Byte offsets in str at which a scalar value ends (0 included).
RuneEnds(str) ==
    LET rs == RangeRunes(str) IN
    { Len(Flatten([j \in 1..k |-> RuneBytes(rs[j])])) : k \in 0..Len(rs) }

\* The clusters of the cluster sequence g that byte offset e falls strictly
\* inside.
ClustersAround(g, e) ==
    { k \in 1..Len(g) :
        LET st == Len(Flatten(SubSeq(g, 1, k - 1))) IN
        st < e /\ e < st + Len(g[k]) }

\* C20: in every configuration the boundary of each line, when the line is
\* yielded (where its content ends, before and after trimming), lies on a
\* scalar-value boundary of the input; the boundary falls inside a grapheme
\* cluster only when bisection is allowed and that cluster is larger than
\* byteLimit.
C20_BoundariesOnScalars ==
    [][ \A i \in (Len(yielded) + 1)..Len(yielded') :
            LET g == Graphemes(s)
                ends == RuneEnds(s)
                st == Len(Flatten(Raws(yielded)))
                e == st + Len(yielded'[i].raw)
            IN  /\ e \in ends
                /\ st + Len(yielded'[i].line) \in ends
                /\ \A k \in ClustersAround(g, e) :
                      /\ sb.breakGraphemeClusters
                      /\ Len(g[k]) > byteLimit ]_vars

\* With a positive byteLimit, a line ended inside an oversized cluster
\* (bisection) and another ended at a cluster boundary, the input also
\* holding a cluster that fits.
C20_Witness ==
    /\ byteLimit > 0
    /\ \E i, j \in 1..Len(yielded) :
          /\ ClustersAround(Graphemes(s), RawStart(i) + Len(yielded[i].raw)) # {}
          /\ ClustersAround(Graphemes(s), RawStart(j) + Len(yielded[j].raw)) = {}
          /\ \E k \in 1..Len(Graphemes(s)) : Len(Graphemes(s)[k]) <= byteLimit

\* Size in bytes of the largest scalar value of str (0 for the empty string).
MaxRuneSize(str) ==
    LET rs == RangeRunes(str) IN
    IF rs = <<>> THEN 0
    ELSE SetMax({ Len(RuneBytes(rs[j])) : j \in 1..Len(rs) })

\* C21: with bisection allowed and byteLimit at least the size of the largest
\* scalar value of the input, every line yielded by the bisection loop is at
\* most byteLimit bytes long, whatever the working line held when the
\* bisection began.
C21_BisectLinesWithinLimit ==
    (sb.breakGraphemeClusters /\ byteLimit >= MaxRuneSize(s)) =>
        \A i \in 1..Len(yielded) :
            yielded[i].site = "bisect" => Len(yielded[i].line) <= byteLimit

\* C22: the branch of the budget check that reports
\* ErrGraphemeClusterTooLarge (working line over byteLimit, no space candidate,
\* lastPos.pos = 0) is never taken, in any configuration: no line is yielded
\* from it, and at the top of the loop no cluster that would be appended can
\* lead into it.
C22_SingleBranchUnreachable ==
    /\ \A i \in 1..Len(yielded) : yielded[i].site # "single"
    /\ (pc = "loop" /\ gr # <<>>) =>
          \/ Len(Head(gr)) > byteLimit
          \/ ~(/\ Len(workingLine) + Len(Head(gr)) > byteLimit
               /\ spacePos.size = 0
               /\ ~IsSpace(DecodeRuneInString(Head(gr)))
               /\ lastPos.pos = 0)

\* Under continue-on-error a cluster larger than byteLimit met with an empty
\* working line was taken by the pre-check, and the pass went on to append the
\* next cluster.
C22_Witness ==
    /\ Len(yielded) >= 2
    /\ yielded[1].site = "oversized"
    /\ yielded[2].site \in BudgetSites

\* The append of the next cluster will take the budget check with no space
\* candidate: the cluster fits, is not whitespace, and none is held.
AppendsWithoutSpace ==
    /\ pc = "loop" /\ gr # <<>>
    /\ Len(Head(gr)) <= byteLimit
    /\ spacePos.size = 0
    /\ ~IsSpace(DecodeRuneInString(Head(gr)))

\* C23: when appending a cluster takes the working line over byteLimit and
\* there is no space candidate, the line yielded is the working line as it
\* was before the append and (unless the consumer stops) the cluster alone
\* starts the next working line; when the append brings the working line to
\* byteLimit exactly, it is yielded whole and the next working line is empty.
C23_FallbackAndExact ==
    [][ AppendsWithoutSpace =>
          LET c == Head(gr)
              wl == workingLine \o c
              new == yielded'[Len(yielded')]
          IN
          /\ Len(wl) > byteLimit =>
                /\ Len(yielded') = Len(yielded) + 1
                /\ new.line = workingLine /\ new.raw = workingLine
                /\ new.err = Nil
                /\ new.ok => workingLine' = c /\ pc' = "loop"
          /\ Len(wl) = byteLimit =>
                /\ Len(yielded') = Len(yielded) + 1
                /\ new.line = wl /\ new.raw = wl
                /\ new.err = Nil
                /\ new.ok => workingLine' = <<>> /\ pc' = "loop"
          /\ Len(wl) < byteLimit => yielded' = yielded /\ workingLine' = wl ]_vars

\* A line was cut in front of a cluster of two scalar values that did not
\* fit behind the working line, and that cluster now is the working line.
C23_Witness ==
    /\ pc = "loop"
    /\ yielded # <<>>
    /\ yielded[Len(yielded)].site = "fallback"
    /\ Len(yielded[Len(yielded)].raw) >= 1
    /\ Len(RangeRunes(workingLine)) >= 2
    /\ yielded[Len(yielded)].wl = yielded[Len(yielded)].raw \o workingLine

\* Offset at which the first cluster of str larger than byteLimit ends
\* (-1 when no cluster is).
FirstOversizedEnd(str) ==
    LET g == Graphemes(str)
        big == { k \in 1..Len(g) : Len(g[k]) > byteLimit }
    IN  IF big = {} THEN -1
        ELSE Len(Flatten(SubSeq(g, 1, CHOOSE k \in big : \A j \in big : k <= j)))

\* C24: in the default configuration (trimming off), once a line with an
\* error has been yielded, the yielded lines, the error line included,
\* concatenate to the prefix of the input that ends exactly at the end of the
\* first cluster larger than byteLimit.
C24_PrefixUpToOversized ==
    (sb = DefaultSplitBuilder /\ ErrorYielded) =>
        LET out == Flatten(Lines(yielded)) IN
        /\ IsPrefix(out, s)
        /\ Len(out) = FirstOversizedEnd(s)

\* C25: Split never panics on a slice; at the top of every loop iteration
\* lastPos.pos is the length of the working line, and when spacePos.size > 0
\* the offset spacePos.pos lies between 1 and the length of the working line,
\* just past a whitespace cluster of the input that the working line still
\* holds.
C25_CandidatesInRange ==
    /\ pc # "panic"
    /\ pc = "loop" =>
          /\ lastPos.pos = Len(workingLine)
          /\ spacePos.size > 0 =>
                /\ 1 <= spacePos.pos /\ spacePos.pos <= Len(workingLine)
                /\ spacePos.size <= spacePos.pos
                /\ IsSpace(DecodeRuneInString(
                       SubSeq(workingLine, spacePos.pos - spacePos.size + 1,
                              spacePos.pos)))
                /\ Len(Flatten(Raws(yielded))) + spacePos.pos \in WhitespaceEnds(s)

\* After a line was yielded, the working line holds a whitespace cluster
\* with a further cluster behind it.
C25_Witness ==
    /\ pc = "loop"
    /\ yielded # <<>>
    /\ spacePos.size > 0
    /\ spacePos.pos < Len(workingLine)
    /\ lastPos.pos = Len(workingLine)

\* Indices of the whitespace clusters of the cluster sequence g.
WhitespaceClusters(g) ==
    { k \in 1..Len(g) : IsSpace(DecodeRuneInString(g[k])) }

\* The pass over an input of exactly byteLimit bytes yielded it as one ok
\* line.
YieldedAsOneLine ==
    /\ Len(yielded) = 1
    /\ yielded[1].raw = s /\ yielded[1].line = Trimmed(s)
    /\ yielded[1].err = Nil

\* The pass yielded the input as two ok lines, cut at byte offset e.
YieldedAsTwoLines(e) ==
    /\ Len(yielded) = 2
    /\ yielded[1].raw = SubSeq(s, 1, e) /\ yielded[1].line = Trimmed(SubSeq(s, 1, e))
    /\ yielded[2].raw = SubSeq(s, e + 1, Len(s))
    /\ yielded[2].line = Trimmed(SubSeq(s, e + 1, Len(s)))
    /\ yielded[2].raw # <<>>
    /\ yielded[1].err = Nil /\ yielded[2].err = Nil

\* C26 as stated (for a non-empty input): an input of exactly byteLimit bytes
\* that contains a whitespace cluster other than its last cluster is yielded
\* as two lines, cut just past its last whitespace cluster; one with no
\* whitespace cluster, or whose only whitespace cluster is its last cluster,
\* is yielded as one line.
C26_ExactFitAnySpace ==
    (Len(s) = byteLimit /\ byteLimit >= 1 /\ pc = "end") =>
        LET g == Graphemes(s)
            ws == WhitespaceClusters(g)
        IN  IF ws \ {Len(g)} # {}
            THEN YieldedAsTwoLines(Len(Flatten(SubSeq(g, 1, SetMax(ws)))))
            ELSE YieldedAsOneLine

\* C26 amended: the budget check fires when the working line reaches
\* byteLimit. A non-empty input of exactly byteLimit bytes that contains a
\* whitespace cluster and does not end with one is yielded as two lines, cut
\* just past its last whitespace cluster; one with no whitespace cluster, or
\* whose last cluster is a whitespace cluster, is yielded as one line.
C26_ExactFitSpaceBeforeEnd ==
    (Len(s) = byteLimit /\ byteLimit >= 1 /\ pc = "end") =>
        LET g == Graphemes(s)
            ws == WhitespaceClusters(g)
        IN  IF ws # {} /\ Len(g) \notin ws
            THEN YieldedAsTwoLines(Len(Flatten(SubSeq(g, 1, SetMax(ws)))))
            ELSE YieldedAsOneLine

\* An input of exactly byteLimit bytes with two whitespace clusters, not at
\* its end, was yielded as two lines by a space break and the final flush.
C26_Witness ==
    /\ Len(s) = byteLimit /\ pc = "end"
    /\ Len(yielded) = 2
    /\ yielded[1].site = "space" /\ yielded[2].site = "final"
    /\ Cardinality(WhitespaceClusters(Graphemes(s))) >= 2

====
